---- MODULE Spec2Model ----
(***************************************************************************)
(* GhostCart deferred-purchase monitoring: the monitoring_jobs table, the  *)
(* scheduler's job store and the coroutines that work on them              *)
(* (create_monitoring_job, check_monitoring_conditions, deactivate_job,    *)
(* cancel_monitoring_job, trigger_autonomous_purchase).                    *)
(*                                                                         *)
(* Every coroutine is cut at its await points: between two awaits the      *)
(* event loop runs nothing else, so each action below is one such block.   *)
(* Stored Intents are given data of the mandates table (IntentData).       *)
(* The evaluations that are running are a bag of coroutine frames: two     *)
(* runs at the same position with the same locals are not told apart.      *)
(***************************************************************************)
EXTENDS Integers, Sequences, FiniteSets, Bags, TLC

\* ---------------------------------------------------------------- bounds
MaxTime == 1
MaxProducts == 2
MaxPurchases == 2
MaxItems == 2
MaxEvents == 2

\* ------------------------------------------------------ program constants
MaxInstances == 3
ShippingCents == 1000
TaxPercent == 8

VARIABLES now, jobs, sched, deactLog, evals, creator, canceller, lastLog, scan,
          carts, payments, transactions, chain, signing, cartv,
          mandates, intentv, hpchain, sse

\* The mandates and transactions tables: Cart and Payment records, Transactions.
ledger == <<carts, payments, transactions>>

\* One call of a pure routine each: the chain validation, a signature
\* verification, a Cart construction.
probes == <<chain, signing, cartv, mandates, intentv, hpchain, sse>>

vars == <<now, jobs, sched, deactLog, evals, creator, canceller, lastLog, scan,
          carts, payments, transactions, chain, signing, cartv,
          mandates, intentv, hpchain, sse>>

\* ------------------------------------------------------------ stored data
Intents == {"i1", "i2", "i3"}
Users == {"u1", "u2"}
NoJob == [none |-> TRUE]

\* The Intent records of the mandates table that jobs are created from.
\* i3 is an Intent that was never signed.  i1 and i2 belong to different
\* users.
IntentData ==
    [i \in Intents |->
        CASE i = "i1" -> [user_id |-> "u1", expiration |-> 0, signed |-> TRUE,
                          product_query |-> "coffee maker",
                          max_price_cents |-> 5500, max_delivery_days |-> 7]
          [] i = "i2" -> [user_id |-> "u2", expiration |-> 0, signed |-> TRUE,
                          product_query |-> "airpods",
                          max_price_cents |-> 6000, max_delivery_days |-> 3]
          [] OTHER    -> [user_id |-> "u2", expiration |-> 0, signed |-> FALSE,
                          product_query |-> "airpods",
                          max_price_cents |-> 6000, max_delivery_days |-> 3]]

\* get_mandate_by_id: the mandates table is only ever added to, and every
\* Intent a job is created from was stored before (create_monitoring_job,
\* "Intent was already saved to database").
IntentFound(i) == i \in Intents

\* ---------------------------------------------------------------- catalog
ProductPool ==
    { [price_cents |-> 4350, delivery_estimate_days |-> 5, stock_status |-> "in_stock"],
      [price_cents |-> 4167, delivery_estimate_days |-> 2, stock_status |-> "in_stock"],
      [price_cents |-> 4000, delivery_estimate_days |-> 5, stock_status |-> "in_stock"],
      [price_cents |-> 4000, delivery_estimate_days |-> 2, stock_status |-> "out_of_stock"],
      [price_cents |-> 3000, delivery_estimate_days |-> 2, stock_status |-> "in_stock"] }

\* What the catalog holds for a query when it is searched: any list of at
\* most MaxProducts products (prices change between ticks).
Catalogs == UNION { [1..n -> ProductPool] : n \in 0..MaxProducts }

\* max_product_price_cents = int((max_price_cents - 1000) / 1.08).  For the
\* constraint values used here (4500, 5500, 6000) the float quotient
\* truncates to the same integer as the exact one (3240, 4166, 4629).
MaxProductPrice(max_price_cents) ==
    ((max_price_cents - ShippingCents) * 100) \div (100 + TaxPercent)

\* search_products(query, max_price = cap / 100): keeps, in catalog order,
\* the products with price <= int(max_price * 100); for the caps above the
\* float round trip int((cap / 100) * 100) gives cap back.
SearchProducts(catalog, cap) ==
    SelectSeq(catalog, LAMBDA p : p.price_cents <= cap)

EstimatedCartTotalMut(price_cents) == price_cents + ShippingCents

\* estimated_cart_total = int(price_cents * 1.08 + 1000); the float value
\* truncates to this integer for every price of ProductPool.
EstimatedCartTotal(price_cents) ==
    (price_cents * (100 + TaxPercent)) \div 100 + ShippingCents

\* price_ok and delivery_ok and in_stock
MeetsConstraints(p, max_price_cents, max_delivery_days) ==
    /\ EstimatedCartTotal(p.price_cents) <= max_price_cents
    /\ p.delivery_estimate_days <= max_delivery_days
    /\ p.stock_status = "in_stock"

RECURSIVE ScanFrom(_, _, _, _)
\* for product in products: ... if all ok: matching_product = product; break
ScanFrom(products, k, max_price_cents, max_delivery_days) ==
    IF k > Len(products) THEN 0
    ELSE IF MeetsConstraints(products[k], max_price_cents, max_delivery_days)
         THEN k
         ELSE ScanFrom(products, k + 1, max_price_cents, max_delivery_days)

\* A mutation of the scan: keeps overwriting, so the last qualifying
\* product wins (the loop without its break).
RECURSIVE ScanNoBreak(_, _, _, _)
ScanNoBreak(products, k, max_price_cents, max_delivery_days) ==
    IF k > Len(products) THEN 0
    ELSE LET rest == ScanNoBreak(products, k + 1, max_price_cents, max_delivery_days)
         IN  IF rest # 0 THEN rest
             ELSE IF MeetsConstraints(products[k], max_price_cents, max_delivery_days)
                  THEN k ELSE 0

FirstMatchMut(products, max_price_cents, max_delivery_days) ==
    ScanNoBreak(products, 1, max_price_cents, max_delivery_days)

\* Index of matching_product in products, 0 for None.
FirstMatch(products, max_price_cents, max_delivery_days) ==
    ScanFrom(products, 1, max_price_cents, max_delivery_days)

\* ------------------------------------------------------------- job store
\* get_monitoring_interval_minutes() outside demo mode.
MonitoringIntervalMinutes == 5

NewJob(i) ==
    [job_id |-> i,
     intent_mandate_id |-> i,
     user_id |-> IntentData[i].user_id,
     product_query |-> IntentData[i].product_query,
     schedule_interval_minutes |-> MonitoringIntervalMinutes,
     max_price_cents |-> IntentData[i].max_price_cents,
     max_delivery_days |-> IntentData[i].max_delivery_days,
     active |-> TRUE,
     last_check_at |-> -1,
     expires_at |-> IntentData[i].expiration]

PrimaryKeyFreeMut(j) == TRUE

\* db.add(job_record); db.commit(): job_id is the primary key, a second
\* row with the same id is an IntegrityError.
PrimaryKeyFree(j) == jobs[j] = NoJob

DeactivatedRecordMut(rec) == rec

\* job.active = False
DeactivatedRecord(rec) == [rec EXCEPT !.active = FALSE]

JobsAfterDeactivateMut(j) ==
    [i \in Intents |-> IF jobs[i] # NoJob THEN DeactivatedRecord(jobs[i]) ELSE jobs[i]]

\* deactivate_job(db, job_id, reason): the row, the "Deactivated monitoring
\* job" log line and scheduler.remove_job.
JobsAfterDeactivate(j) ==
    IF jobs[j] # NoJob THEN [jobs EXCEPT ![j] = DeactivatedRecord(jobs[j])] ELSE jobs

LogAfterDeactivate(j, reason) ==
    IF jobs[j] # NoJob THEN [deactLog EXCEPT ![j] = Append(@, reason)] ELSE deactLog

SchedAfterRemove(j) == sched \ {j}

\* -------------------------------------------------------------- processes
NoProduct == [none |-> TRUE]

\* No call of a pure routine made yet.
NoCall == [none |-> TRUE]

\* The rows of the mandates table that the signing endpoint and the Intent
\* construction work on, by primary key; NoRow: no row with that key.
MandateIds == {"intent_hnp_1", "intent_hp_1", "cart_hp_1", "payment_hp_1"}
NoRow == [none |-> TRUE]

NoScan == [products |-> <<>>, max_price_cents |-> 0, max_delivery_days |-> 0, matching |-> 0]

\* The frame of a check_monitoring_conditions coroutine that was just called.
NewEval(j) == [pc |-> "start", job |-> j, check_time |-> -1, product |-> NoProduct]
IdleCreator == [pc |-> "idle", job |-> "i1"]
IdleCanceller == [pc |-> "idle", job |-> "i1", user_id |-> "u1"]

\* The line a coroutine logs (or the value it returns) when it ends.
LogLine(event, j) == [event |-> event, job |-> j]

Running == BagToSet(evals)
RunningOf(j) == BagCardinality([r \in {q \in Running : q.job = j} |-> evals[r]])

\* The coroutine with frame r moves on to frame r2 / returns.
Moved(r, r2) == (evals (-) SetToBag({r})) (+) SetToBag({r2})
Returned(r) == evals (-) SetToBag({r})

\* ------------------------------------------------------------ SSEManager
Sessions == {"s1", "s2"}
Callers == {"c1", "c2"}

\* A coroutine that is in none of the manager's routines.
IdleCaller == [pc |-> "idle", op |-> "none", session |-> "s1", event |-> 0]

\* SSEManager.__init__: no queue, the lock unlocked.  added counts the
\* add_event calls made (an event is known by the number of its call),
\* delivered is what get_events_stream yielded per session, cancelled the
\* events of the add_event calls whose task was cancelled.
NewSSEManager ==
    [queues |-> [s \in Sessions |-> [exists |-> FALSE, items |-> <<>>]],
     lock |-> "free",
     waiters |-> <<>>,
     callers |-> [c \in Callers |-> IdleCaller],
     added |-> 0,
     delivered |-> [s \in Sessions |-> <<>>],
     cancelled |-> {}]

Init ==
    /\ now = 0
    /\ jobs = [i \in Intents |-> NoJob]
    /\ sched = {}
    /\ deactLog = [i \in Intents |-> <<>>]
    /\ evals = EmptyBag
    /\ creator = IdleCreator
    /\ canceller = IdleCanceller
    /\ lastLog = LogLine("none", "i1")
    /\ scan = NoScan
    /\ carts = <<>>
    /\ payments = <<>>
    /\ transactions = <<>>
    /\ chain = NoCall
    /\ signing = NoCall
    /\ cartv = NoCall
    /\ mandates = [m \in MandateIds |-> NoRow]
    /\ intentv = NoCall
    /\ hpchain = NoCall
    /\ sse = NewSSEManager

\* datetime.utcnow() moves on.
Advance ==
    /\ now < MaxTime
    /\ now' = now + 1
    /\ UNCHANGED <<jobs, sched, deactLog, evals, creator, canceller, lastLog, scan, ledger, probes>>

\* ------------------------------------------------ create_monitoring_job
\* Up to and including db.commit() of the new row.
HasSignatureMut(i) == TRUE

\* intent_mandate.get("signature")
HasSignature(i) == IntentData[i].signed

CreateCommit(i) ==
    /\ creator.pc = "idle"
    /\ IF ~HasSignature(i)
       THEN /\ lastLog' = LogLine("create_signature_invalid", i)
            /\ UNCHANGED <<jobs, creator>>
       ELSE IF PrimaryKeyFree(i)
            THEN /\ jobs' = [jobs EXCEPT ![i] = NewJob(i)]
                 /\ creator' = [pc |-> "committed", job |-> i]
                 /\ UNCHANGED lastLog
            ELSE /\ lastLog' = LogLine("create_integrity_error", i)
                 /\ UNCHANGED <<jobs, creator>>
    /\ UNCHANGED <<now, sched, deactLog, evals, canceller, scan, ledger, probes>>

\* db.refresh(job_record); scheduler.add_monitoring_job(...)
CreateSchedule ==
    /\ creator.pc = "committed"
    /\ sched' = sched \cup {creator.job}
    /\ creator' = IdleCreator
    /\ lastLog' = LogLine("created", creator.job)
    /\ UNCHANGED <<now, jobs, deactLog, evals, canceller, scan, ledger, probes>>

\* ------------------------------------------- check_monitoring_conditions
\* The scheduler fires the interval trigger of job j: at most max_instances
\* runs of one job at a time.
Dispatch(j) ==
    /\ j \in sched
    /\ RunningOf(j) < MaxInstances
    /\ evals' = evals (+) SetToBag({NewEval(j)})
    /\ UNCHANGED <<now, jobs, sched, deactLog, creator, canceller, lastLog, scan, ledger, probes>>

StartSelectsJobMut(j) == jobs[j] # NoJob

\* select(MonitoringJobModel).where(job_id == ..., active == True)
StartSelectsJob(j) == jobs[j] # NoJob /\ jobs[j].active

Start(r) ==
    /\ r.pc = "start"
    /\ IF StartSelectsJob(r.job)
       THEN /\ evals' = Moved(r, [r EXCEPT !.pc = "touch", !.check_time = now])
            /\ UNCHANGED lastLog
       ELSE /\ evals' = Returned(r)
            /\ lastLog' = LogLine("check_inactive", r.job)
    /\ UNCHANGED <<now, jobs, sched, deactLog, creator, canceller, scan, ledger, probes>>

TouchedRecordMut(rec, check_time) ==
    [rec EXCEPT !.last_check_at = check_time, !.expires_at = check_time]

\* job.last_check_at = check_time
TouchedRecord(rec, check_time) == [rec EXCEPT !.last_check_at = check_time]

JobsAfterTouchMut(j, check_time) == jobs

\* The monitoring_jobs table after the commit of the touched row.
JobsAfterTouch(j, check_time) ==
    [jobs EXCEPT ![j] = TouchedRecord(jobs[j], check_time)]

\* job.last_check_at = check_time; await db.commit()
Touch(r) ==
    /\ r.pc = "touch"
    /\ jobs' = JobsAfterTouch(r.job, r.check_time)
    /\ evals' = Moved(r, [r EXCEPT !.pc = "load", !.check_time = -1])
    /\ UNCHANGED <<now, sched, deactLog, creator, canceller, lastLog, scan, ledger, probes>>

IsExpiredMut(t, expiration) == t >= expiration

\* datetime.utcnow() > expiration
IsExpired(t, expiration) == t > expiration

JobsAfterNoMatchMut(j) == JobsAfterDeactivate(j)

\* if not products: return / if not matching_product: return
JobsAfterNoMatch(j) == jobs

\* From the return of get_mandate_by_id to the next await: the expiry
\* test, the catalog query and the scan of its result.
Load(r) ==
    LET j == r.job IN
    /\ r.pc = "load"
    /\ IF ~IntentFound(j)
       THEN /\ evals' = Moved(r, [r EXCEPT !.pc = "missing"])
            /\ UNCHANGED <<lastLog, jobs>>
       ELSE IF IsExpired(now, IntentData[j].expiration)
       THEN /\ evals' = Moved(r, [r EXCEPT !.pc = "expire"])
            /\ UNCHANGED <<lastLog, jobs>>
       ELSE \E catalog \in Catalogs :
            LET mp == jobs[j].max_price_cents
                md == jobs[j].max_delivery_days
                products == SearchProducts(catalog, MaxProductPrice(mp))
                m == FirstMatch(products, mp, md)
            IN  IF Len(products) = 0
                THEN /\ evals' = Returned(r)
                     /\ lastLog' = LogLine("no_products", j)
                     /\ jobs' = JobsAfterNoMatch(j)
                ELSE IF m = 0
                THEN /\ evals' = Returned(r)
                     /\ lastLog' = LogLine("no_match", j)
                     /\ jobs' = JobsAfterNoMatch(j)
                ELSE /\ evals' = Moved(r, [r EXCEPT !.pc = "guard", !.product = products[m]])
                     /\ UNCHANGED <<lastLog, jobs>>
    /\ UNCHANGED <<now, sched, deactLog, creator, canceller, scan, ledger, probes>>

\* deactivate_job(db, job_id, "expired") / (..., "intent_not_found"), return
Expire(r) ==
    LET j == r.job
        reason == IF r.pc = "expire" THEN "expired" ELSE "intent_not_found"
    IN
    /\ r.pc \in {"expire", "missing"}
    /\ jobs' = JobsAfterDeactivate(j)
    /\ deactLog' = LogAfterDeactivate(j, reason)
    /\ sched' = SchedAfterRemove(j)
    /\ evals' = Returned(r)
    /\ lastLog' = LogLine(reason, j)
    /\ UNCHANGED <<now, creator, canceller, scan, ledger, probes>>

GuardSeesActiveMut(j) == TRUE

\* await db.refresh(job); if not job.active: return
GuardSeesActive(j) == jobs[j].active

Guard(r) ==
    /\ r.pc = "guard"
    /\ IF GuardSeesActive(r.job)
       THEN /\ evals' = Moved(r, [r EXCEPT !.pc = "flip"])
            /\ UNCHANGED lastLog
       ELSE /\ evals' = Returned(r)
            /\ lastLog' = LogLine("guard_noop", r.job)
    /\ UNCHANGED <<now, jobs, sched, deactLog, creator, canceller, scan, ledger, probes>>

\* await deactivate_job(db, intent_mandate_id, "purchase_starting")
Flip(r) ==
    LET j == r.job IN
    /\ r.pc = "flip"
    /\ jobs' = JobsAfterDeactivate(j)
    /\ deactLog' = LogAfterDeactivate(j, "purchase_starting")
    /\ sched' = SchedAfterRemove(j)
    /\ evals' = Moved(r, [r EXCEPT !.pc = "purchase"])
    /\ UNCHANGED <<now, creator, canceller, lastLog, scan, ledger, probes>>

\* ------------------------------------------- trigger_autonomous_purchase
\* grand_total_cents = subtotal + int(subtotal * 0.08) + 1000
CartGrandTotal(price_cents) ==
    price_cents + (price_cents * TaxPercent) \div 100 + ShippingCents

\* The keys of mandate_data that create_cart_mandate hands to CartMandate.
CartDataKeys ==
    {"mandate_id", "mandate_type", "user_id", "items", "total", "merchant_info",
     "delivery_estimate_days", "references", "signature"}

\* The fields of the CartMandate model, which forbids extra keys.
CartMandateFields ==
    {"mandate_id", "mandate_type", "items", "total", "merchant_info",
     "delivery_estimate_days", "references", "signature"}

\* CartMandate(**mandate_data) validates.
CartMandateAccepts == CartDataKeys \subseteq CartMandateFields

\* How far trigger_autonomous_purchase gets with the matching product.
PurchaseOutcome(i, product) ==
    IF CartGrandTotal(product.price_cents) > IntentData[i].max_price_cents
    THEN "constraints_violated"
    ELSE IF product.delivery_estimate_days > IntentData[i].max_delivery_days
    THEN "constraints_violated"
    ELSE IF ~CartMandateAccepts
    THEN "validation_error"
    ELSE "cart_created"

\* What PaymentAgent.process_hnp_purchase / process_hp_purchase hands back:
\* the JSON object found in the payment agent's reply text, or the failure
\* dictionary built when no JSON can be read. The payment_mandate of a reply
\* is whatever the reply text holds; nothing checks it.
NoMandate == [none |-> TRUE]

ReplyAmounts(total) == {total, total + 1}

AgentReplies(total) ==
    [success : BOOLEAN, status : {"authorized", "declined"},
     payment_mandate : {NoMandate} \cup {[amount_cents |-> a] : a \in ReplyAmounts(total)}]

\* db.add(MandateModel(mandate_type="cart", ...)); the record's place in
\* the table stands for its mandate_id.
CartRecord(total, intent, signed_by) ==
    [grand_total_cents |-> total, intent |-> intent, signed_by |-> signed_by]

\* if payment_mandate: db.add(MandateModel(mandate_type="payment", ...))
PaymentsAfter(cart, reply) ==
    IF reply.payment_mandate # NoMandate
    THEN Append(payments, [cart |-> cart,
                           amount_cents |-> reply.payment_mandate.amount_cents])
    ELSE payments

\* status = "authorized" if transaction_result.get("status") == "authorized"
\*          else "declined"; create_transaction(..., amount_cents=<cart total>)
TransactionsAfterMut(cart, intent, total, reply) ==
    IF transactions = <<>>
    THEN <<[cart |-> cart, intent |-> intent,
            amount_cents |-> total, status |-> reply.status]>>
    ELSE [transactions EXCEPT ![1] = [cart |-> cart, intent |-> intent,
                                      amount_cents |-> total, status |-> reply.status]]

TransactionsAfter(cart, intent, total, reply) ==
    Append(transactions, [cart |-> cart, intent |-> intent,
                          amount_cents |-> total, status |-> reply.status])

\* await trigger_autonomous_purchase(...): an exception it raises is caught
\* by the evaluation's except clause and logged. With the Cart stored, the
\* payment agent is asked; a reply without success ends the routine with no
\* Transaction, any other reply stores the Payment it names and a Transaction.
Purchase(r) ==
    LET outcome == PurchaseOutcome(r.job, r.product)
        total == CartGrandTotal(r.product.price_cents)
        cart == Len(carts) + 1
    IN
    /\ r.pc = "purchase"
    /\ evals' = Returned(r)
    /\ IF outcome # "cart_created"
       THEN /\ lastLog' = LogLine("purchase_failed", r.job)
            /\ UNCHANGED ledger
       ELSE /\ carts' = Append(carts, CartRecord(total, r.job, "agent"))
            /\ lastLog' = LogLine("purchase_triggered", r.job)
            /\ \E reply \in AgentReplies(total) :
                 IF ~reply.success
                 THEN UNCHANGED <<payments, transactions>>
                 ELSE /\ payments' = PaymentsAfter(cart, reply)
                      /\ transactions' = TransactionsAfter(cart, r.job, total, reply)
    /\ UNCHANGED <<now, jobs, sched, deactLog, creator, canceller, scan, probes>>

\* Positions of an evaluation that has not committed the flip.
PreFlip == {"start", "touch", "load", "missing", "expire", "guard", "flip"}

JobsAfterErrorMut(j) == JobsAfterDeactivate(j)

\* except Exception as e: logger.error("Check failed ...")
JobsAfterError(j) == jobs

\* An await of the evaluation raises before the flip is committed (the
\* database, the mandate lookup, the catalog).
Fail(r) ==
    /\ r.pc \in PreFlip
    /\ jobs' = JobsAfterError(r.job)
    /\ evals' = Returned(r)
    /\ lastLog' = LogLine("check_failed", r.job)
    /\ UNCHANGED <<now, sched, deactLog, creator, canceller, scan, ledger, probes>>

\* ------------------------------------------------ cancel_monitoring_job
\* select(...).where(job_id == ..., user_id == ..., active == True)
CancelSelectsJobMut(j, u) == jobs[j] # NoJob /\ jobs[j].active

CancelSelectsJob(j, u) == jobs[j] # NoJob /\ jobs[j].user_id = u /\ jobs[j].active

CancelSelect(j, u) ==
    /\ canceller.pc = "idle"
    /\ IF CancelSelectsJob(j, u)
       THEN /\ canceller' = [pc |-> "deactivate", job |-> j, user_id |-> u]
            /\ UNCHANGED lastLog
       ELSE /\ lastLog' = LogLine("cancel_false", j)
            /\ UNCHANGED canceller
    /\ UNCHANGED <<now, jobs, sched, deactLog, evals, creator, scan, ledger, probes>>

\* await deactivate_job(db, job_id, "user_cancelled"); return True
CancelDeactivate ==
    LET j == canceller.job IN
    /\ canceller.pc = "deactivate"
    /\ jobs' = JobsAfterDeactivate(j)
    /\ deactLog' = LogAfterDeactivate(j, "user_cancelled")
    /\ sched' = SchedAfterRemove(j)
    /\ canceller' = IdleCanceller
    /\ lastLog' = LogLine("cancel_true", j)
    /\ UNCHANGED <<now, evals, creator, scan, ledger, probes>>

\* ------------------------------------------------------------- the process
\* The server process dies and is started again: every coroutine is gone,
\* the monitoring_jobs table and the scheduler's job store are on disk.
Crash ==
    /\ \/ evals # EmptyBag
       \/ creator.pc # "idle"
       \/ canceller.pc # "idle"
    /\ evals' = EmptyBag
    /\ creator' = IdleCreator
    /\ canceller' = IdleCanceller
    /\ lastLog' = LogLine("restart", "i1")
    /\ UNCHANGED <<now, jobs, sched, deactLog, scan, ledger, probes>>

\* The Intents monitoring is asked for: one signed and one unsigned in the
\* main specification, two signed ones of two users in the specification of
\* two jobs side by side.
SoloIntents == {"i1", "i3"}
PairIntents == {"i1", "i2"}

Next ==
    \/ Advance
    \/ \E i \in SoloIntents : CreateCommit(i)
    \/ CreateSchedule
    \/ \E j \in Intents : Dispatch(j)
    \/ \E r \in Running : Start(r)
    \/ \E r \in Running : Touch(r)
    \/ \E r \in Running : Load(r)
    \/ \E r \in Running : Expire(r)
    \/ \E r \in Running : Guard(r)
    \/ \E r \in Running : Flip(r)
    \/ \E r \in Running : Purchase(r)
    \/ \E r \in Running : Fail(r)
    \/ \E j \in SoloIntents, u \in Users : CancelSelect(j, u)
    \/ CancelDeactivate
    \/ Crash

Spec == Init /\ [][Next]_vars

\* The process keeps running: the steps of Next but the restart.
NextLive ==
    \/ Advance
    \/ \E i \in SoloIntents : CreateCommit(i)
    \/ CreateSchedule
    \/ \E j \in Intents : Dispatch(j)
    \/ \E r \in Running : Start(r)
    \/ \E r \in Running : Touch(r)
    \/ \E r \in Running : Load(r)
    \/ \E r \in Running : Expire(r)
    \/ \E r \in Running : Guard(r)
    \/ \E r \in Running : Flip(r)
    \/ \E r \in Running : Purchase(r)
    \/ \E r \in Running : Fail(r)
    \/ \E j \in SoloIntents, u \in Users : CancelSelect(j, u)
    \/ CancelDeactivate

\* The interval trigger of a scheduled job keeps firing, and the event loop
\* resumes every coroutine that is ready.
Fairness ==
    /\ \A j \in Intents : WF_vars(Dispatch(j))
    /\ WF_vars(\E r \in Running : Start(r))
    /\ WF_vars(\E r \in Running : Touch(r))
    /\ WF_vars(\E r \in Running : Load(r))
    /\ WF_vars(\E r \in Running : Expire(r))
    /\ WF_vars(\E r \in Running : Guard(r))
    /\ WF_vars(\E r \in Running : Flip(r))
    /\ WF_vars(\E r \in Running : Purchase(r))

SpecLive == Init /\ [][NextLive]_vars /\ Fairness

\* ------------------------------------------------ two jobs side by side
\* Here a tick of a job fires when no evaluation of that job is running:
\* the evaluations that overlap are those of the two jobs (overlapping
\* evaluations of one job are the main specification's subject).
PairDispatch(j) ==
    /\ ~\E r \in Running : r.job = j
    /\ Dispatch(j)

NextPair ==
    \/ Advance
    \/ \E i \in PairIntents : CreateCommit(i)
    \/ CreateSchedule
    \/ \E j \in PairIntents : PairDispatch(j)
    \/ \E r \in Running : Start(r)
    \/ \E r \in Running : Touch(r)
    \/ \E r \in Running : Load(r)
    \/ \E r \in Running : Expire(r)
    \/ \E r \in Running : Guard(r)
    \/ \E r \in Running : Flip(r)
    \/ \E r \in Running : Purchase(r)
    \/ \E r \in Running : Fail(r)
    \/ \E j \in PairIntents, u \in Users : CancelSelect(j, u)
    \/ CancelDeactivate

SpecPair == Init /\ [][NextPair]_vars

\* ------------------------------------------------ the selection on its own
\* Constraint values a job's snapshot can hold.
PriceLimits == {4500, 5500, 6000}
DeliveryLimits == {1, 3, 7}

\* The catalog query and the scan of one evaluation, for any constraints
\* and any catalog content.
SelectMatching(mp, md, catalog) ==
    LET products == SearchProducts(catalog, MaxProductPrice(mp))
    IN
    /\ scan' = [products |-> products, max_price_cents |-> mp,
                max_delivery_days |-> md, matching |-> FirstMatch(products, mp, md)]
    /\ UNCHANGED <<now, jobs, sched, deactLog, evals, creator, canceller, lastLog,
                   ledger, probes>>

NextSelect ==
    \E mp \in PriceLimits, md \in DeliveryLimits, catalog \in Catalogs :
        SelectMatching(mp, md, catalog)

SpecSelect == Init /\ [][NextSelect]_vars

\* -------------------------------------------------------------- signatures
Roles == {"user", "agent", "payment_agent"}

\* The defaults of user_signature_secret, agent_signature_secret and
\* payment_agent_secret.
DefaultSecret ==
    [user |-> "user_secret_key_demo_only_change_me",
     agent |-> "agent_secret_key_demo_only_change_me",
     payment_agent |-> "payment_secret_key_demo_only_change_me"]

\* An environment variable that is not set.
Unset == "unset"

\* The values USER_SIGNATURE_SECRET, AGENT_SIGNATURE_SECRET and
\* PAYMENT_AGENT_SECRET can hold when the process starts: not set, or a
\* string the operator chose.
EnvValues == {Unset, DefaultSecret["user"], DefaultSecret["agent"]}

Environments == [Roles -> EnvValues]

\* Settings(): the environment's value, the default without one.
SettingsSecret(env, role) ==
    IF env[role] = Unset THEN DefaultSecret[role] ELSE env[role]

\* Mandate dictionaries, as lists of (key, value) in insertion order.
MandateAmounts == {5320, 5321}

\* A mandate's dictionary as the code builds it.
MandateDict(a) == <<<<"mandate_id", "cart_hnp_1">>, <<"amount_cents", a>>>>

SignedDicts == {MandateDict(a) : a \in MandateAmounts}

\* The dictionaries a verifier can be handed: a parsed JSON body has its
\* keys in the order of the text.
MandateDicts == SignedDicts \cup {<<d[2], d[1]>> : d \in SignedDicts}

\* dict.__eq__: the same keys with the same values, in any order.
SameDict(d1, d2) == {d1[i] : i \in 1..Len(d1)} = {d2[i] : i \in 1..Len(d2)}

\* The keys in the order sort_keys=True puts them.
KeyOrder == <<"amount_cents", "mandate_id">>

InsertionOrderJsonMut(d) == d

\* json.dumps(data, sort_keys=True, separators=(',', ':'))
CanonicalJson(d) ==
    LET present == SelectSeq(KeyOrder, LAMBDA k : \E i \in 1..Len(d) : d[i][1] = k)
        value(k) == d[CHOOSE i \in 1..Len(d) : d[i][1] = k][2]
    IN [n \in 1..Len(present) |-> <<present[n], value(present[n])>>]

\* datetime values, in microseconds.
Second == 1000000
Times == {Second, Second + 250000}

\* datetime.isoformat(): the microseconds are written only when not zero.
IsoFormat(t) ==
    IF t % Second = 0 THEN <<t \div Second>> ELSE <<t \div Second, t % Second>>

\* f"{canonical_data}|{signer_identity}|{timestamp.isoformat()}"
SignedMessage(d, signer_identity, timestamp_iso) ==
    <<CanonicalJson(d), signer_identity, timestamp_iso>>

\* hmac.new(key, message, sha256).hexdigest(): a digest stands for the one
\* (key, message) pair that produces it.
Hmac(secret_key, message) == [key |-> secret_key, message |-> message]

SignerIdentities == {"u1", "hnp_delegate_agent"}

\* sign_mandate, with timestamp the value datetime.utcnow() returns.
SignMandate(d, signer_identity, secret_key, timestamp) ==
    [kind |-> "SignatureObject",
     algorithm |-> "HMAC-SHA256",
     signer_identity |-> signer_identity,
     timestamp |-> timestamp,
     signature_value |->
         Hmac(secret_key, SignedMessage(d, signer_identity, IsoFormat(timestamp)))]

\* What a caller passes as the signature argument: a SignatureObject, or
\* the signature dictionary of the request body as the verify endpoint does.
SignatureKinds == {"SignatureObject", "dict"}

ExpectedSignatureMut(d, signature, secret_key) ==
    Hmac(secret_key, SignedMessage(d, "u1", IsoFormat(signature.timestamp)))

\* expected_signature_value of services/signature_service.verify_signature
ExpectedSignature(d, signature, secret_key) ==
    Hmac(secret_key,
         SignedMessage(d, signature.signer_identity, IsoFormat(signature.timestamp)))

\* services/signature_service.verify_signature: the attribute reads
\* signature.signer_identity and signature.timestamp raise on a dict;
\* the time of the call is not looked at.
VerifySignature(d, signature, secret_key) ==
    IF signature.kind # "SignatureObject" THEN "raises"
    ELSE IF ExpectedSignature(d, signature, secret_key) = signature.signature_value
    THEN "true"
    ELSE "false"

\* SignatureObject(...): the validator timestamp_not_future.
ConstructsSignatureObject(timestamp, utcnow) == ~(timestamp > utcnow)

\* agents/payment_agent/crypto.verify_signature: get_secret raises without
\* the environment variable, and every exception is turned into False.
PaymentVerifySignature(d, signature_value, signer_identity, timestamp_iso, env, role) ==
    IF env[role] = Unset THEN FALSE
    ELSE Hmac(env[role], SignedMessage(d, signer_identity, timestamp_iso))
         = signature_value

\* One signature made as role a and presented to role b's verifier, with
\* the mandate and the signer identity possibly changed on the way.
SignThenVerify(env, a, b, d, d2, signer, signer2, t, utcnow, kind) ==
    LET sig == SignMandate(d, signer, SettingsSecret(env, a), t)
        presented == [sig EXCEPT !.signer_identity = signer2, !.kind = kind]
    IN
    /\ signing = NoCall
    /\ kind = "SignatureObject" => ConstructsSignatureObject(t, utcnow)
    /\ signing' =
         [env |-> env, signed_as |-> a, verified_as |-> b,
          data |-> d, signature |-> sig,
          presented_data |-> d2, presented |-> presented, utcnow |-> utcnow,
          result |-> VerifySignature(d2, presented, SettingsSecret(env, b)),
          payment_result |->
              PaymentVerifySignature(d2, presented.signature_value,
                                     presented.signer_identity,
                                     IsoFormat(presented.timestamp), env, b)]
    /\ UNCHANGED <<now, jobs, sched, deactLog, evals, creator, canceller, lastLog,
                   scan, ledger, chain, cartv, mandates, intentv, hpchain, sse>>

NextSign ==
    /\ signing = NoCall
    /\ \E env \in Environments, a \in Roles, b \in Roles,
          d \in SignedDicts, d2 \in MandateDicts,
          signer \in SignerIdentities, signer2 \in SignerIdentities,
          t \in Times, utcnow \in Times, kind \in SignatureKinds :
           SignThenVerify(env, a, b, d, d2, signer, signer2, t, utcnow, kind)

SpecSign == Init /\ [][NextSign]_vars

\* ------------------------------------------------------ validate_hnp_chain
\* The fields of the payment agent's own CartMandate and TotalObject models.
PaymentCartFields ==
    {"mandate_id", "mandate_type", "items", "total", "merchant_info",
     "delivery_estimate_days", "references", "signature"}

TotalFields ==
    {"subtotal_cents", "tax_cents", "shipping_cents", "grand_total_cents", "currency"}

\* Python values of the two sides of check 4: cart.references is a
\* ReferencesObject, intent.mandate_id a str.
ReferencesObject(intent_mandate_id) ==
    [type |-> "ReferencesObject", intent_mandate_id |-> intent_mandate_id]

StrValue(s) == [type |-> "str", value |-> s]

\* signed_by of the coordinator's create_cart_mandate call.
CoordinatorSignedByMut == "user"

CoordinatorSignedBy == "agent"

\* create_cart_mandate: sign_user_mandate or sign_agent_mandate over
\* mandate_data, as signer_id or the default identity.
CartSignature(env, d, user_id, signed_by, signer_id, t) ==
    LET signer_identity ==
            IF signer_id # "" THEN signer_id
            ELSE IF signed_by = "user" THEN user_id ELSE "shopping_agent"
    IN IF signed_by = "user"
       THEN SignMandate(d, signer_identity, SettingsSecret(env, "user"), t)
       ELSE SignMandate(d, signer_identity, SettingsSecret(env, "agent"), t)

\* Who made the Cart handed to the validation: the coordinator, or someone
\* holding one role's secret.
CartOrigins == {"coordinator"} \cup Roles

SignatureOfCart(env, origin) ==
    LET d == MandateDict(5320) IN
    IF origin = "coordinator"
    THEN CartSignature(env, d, "u1", CoordinatorSignedBy, "hnp_delegate_agent", Second)
    ELSE SignMandate(d, "u1", SettingsSecret(env, origin), Second)

\* What one call is given: whether the two JSON texts parse into the models,
\* and the facts each check is about.
ChainInputs ==
    [parses : BOOLEAN, intent_signed : BOOLEAN, intent_signature_valid : BOOLEAN,
     intent_signer_is_user : BOOLEAN, expired : BOOLEAN,
     env : Environments, cart_origin : CartOrigins,
     cart_refers_to_intent : BOOLEAN, same_user : BOOLEAN,
     price_within : BOOLEAN, delivery_within : BOOLEAN]

\* One step inside the try block: an exception ends the checks and is
\* appended by the except clause, otherwise the step's entries are appended.
Then(acc, raises, entries) ==
    IF acc.raised THEN acc
    ELSE IF raises THEN [errors |-> Append(acc.errors, "exception"), raised |-> TRUE]
    ELSE [errors |-> acc.errors \o entries, raised |-> FALSE]

Entry(failed, name) == IF failed THEN <<name>> ELSE <<>>

\* validate_hnp_chain
ValidateHnpChain(in) ==
    LET sig == SignatureOfCart(in.env, in.cart_origin)
        parsed == Then([errors |-> <<>>, raised |-> FALSE], ~in.parses, <<>>)
        check1 == Then(parsed, FALSE,
                       IF ~in.intent_signed THEN <<"intent_unsigned">>
                       ELSE Entry(~in.intent_signature_valid, "intent_signature")
                            \o Entry(~in.intent_signer_is_user, "intent_signer"))
        check2 == Then(check1, FALSE, Entry(in.expired, "intent_expired"))
        check3 == Then(check2, FALSE,
                       Entry(~PaymentVerifySignature(MandateDict(5320), sig.signature_value,
                                                     sig.signer_identity,
                                                     IsoFormat(sig.timestamp),
                                                     in.env, "agent"),
                             "cart_signature"))
        check4 == Then(check3, FALSE,
                       Entry(ReferencesObject(IF in.cart_refers_to_intent
                                              THEN "intent_hnp_1" ELSE "intent_hnp_2")
                             # StrValue("intent_hnp_1"),
                             "cart_reference"))
        check5 == Then(check4, "user_id" \notin PaymentCartFields,
                       Entry(~in.same_user, "user_mismatch"))
        check6 == Then(check5, "total_cents" \notin TotalFields,
                       Entry(~in.price_within, "max_price"))
        check7 == Then(check6, FALSE, Entry(~in.delivery_within, "max_delivery"))
        done == Then(check7, "total_cents" \notin TotalFields
                             \/ "user_id" \notin PaymentCartFields, <<>>)
    IN [valid |-> ~done.raised /\ done.errors = <<>>, errors |-> done.errors]

ValidateChain(in) ==
    /\ chain = NoCall
    /\ chain' = [input |-> in,
                 cart_signature |-> SignatureOfCart(in.env, in.cart_origin),
                 result |-> ValidateHnpChain(in)]
    /\ UNCHANGED <<now, jobs, sched, deactLog, evals, creator, canceller, lastLog,
                   scan, ledger, signing, cartv, mandates, intentv, hpchain, sse>>

NextChain ==
    /\ chain = NoCall
    /\ \E in \in ChainInputs : ValidateChain(in)

SpecChain == Init /\ [][NextChain]_vars

\* ---------------------------------------------------- the immediate purchase
\* Prices and quantities of the shopping agent's carts.
HpPrices == {3000, 4000}
HpQuantities == {1, 2}

\* api/chat.create_cart_mandate: the grand total of a cart of one product.
HpCartTotal(price_cents, quantity) ==
    LET subtotal_cents == price_cents * quantity IN
    subtotal_cents + (subtotal_cents * TaxPercent) \div 100 + ShippingCents

\* create_shopping_cart: the cart is saved, and signed by the user later.
CreateShoppingCart(price_cents, quantity) ==
    /\ Len(carts) < MaxPurchases
    /\ carts' = Append(carts, CartRecord(HpCartTotal(price_cents, quantity), "none", "user"))
    /\ UNCHANGED <<now, jobs, sched, deactLog, evals, creator, canceller, lastLog,
                   scan, payments, transactions, probes>>

\* invoke_payment_processing: a reply without success stores nothing, any
\* other reply stores the Payment it names and a Transaction of the cart's
\* grand total.
InvokePaymentProcessing(cart) ==
    /\ Len(transactions) < MaxPurchases
    /\ \E reply \in AgentReplies(carts[cart].grand_total_cents) :
         IF ~reply.success
         THEN UNCHANGED <<payments, transactions>>
         ELSE /\ payments' = PaymentsAfter(cart, reply)
              /\ transactions' = TransactionsAfter(cart, "none",
                                                   carts[cart].grand_total_cents, reply)
    /\ UNCHANGED <<now, jobs, sched, deactLog, evals, creator, canceller, lastLog,
                   scan, carts, probes>>

NextHp ==
    \/ \E price_cents \in HpPrices, quantity \in HpQuantities :
          CreateShoppingCart(price_cents, quantity)
    \/ \E cart \in 1..Len(carts) : InvokePaymentProcessing(cart)

SpecHp == Init /\ [][NextHp]_vars

\* ------------------------------------------------------- Cart construction
\* Line items and totals a caller can hand to the Cart models.
LineItems ==
    UNION {{[quantity |-> q, unit_price_cents |-> u, line_total_cents |-> q * u],
            [quantity |-> q, unit_price_cents |-> u, line_total_cents |-> q * u + 1]} :
           q \in 0..2, u \in 1..2}

ItemLists == UNION {[1..n -> LineItems] : n \in 1..MaxItems}

Totals ==
    [subtotal_cents : 0..4, tax_cents : 0..1, shipping_cents : 0..1,
     grand_total_cents : 0..6]

\* LineItem: quantity gt 0, the amounts ge 0, and validate_line_total.
LineItemValid(item) ==
    /\ item.quantity > 0
    /\ item.unit_price_cents >= 0
    /\ item.line_total_cents >= 0
    /\ item.line_total_cents = item.quantity * item.unit_price_cents

TotalValidMut(total) ==
    /\ total.subtotal_cents >= 0
    /\ total.tax_cents >= 0
    /\ total.shipping_cents >= 0
    /\ total.grand_total_cents >= 0

\* TotalObject: the amounts ge 0, and validate_grand_total.
TotalValid(total) ==
    /\ total.subtotal_cents >= 0
    /\ total.tax_cents >= 0
    /\ total.shipping_cents >= 0
    /\ total.grand_total_cents >= 0
    /\ total.grand_total_cents
         = total.subtotal_cents + total.tax_cents + total.shipping_cents

RECURSIVE SumLineTotals(_)
\* sum(item.line_total_cents for item in self.items)
SumLineTotals(items) ==
    IF items = <<>> THEN 0
    ELSE items[1].line_total_cents + SumLineTotals(Tail(items))

\* The items and the total pass the validators of LineItem, TotalObject and
\* CartMandate.validate_totals.
CartTotalsValid(items, total) ==
    /\ \A k \in 1..Len(items) : LineItemValid(items[k])
    /\ TotalValid(total)
    /\ total.subtotal_cents = SumLineTotals(items)

\* The items and the total trigger_autonomous_purchase builds for a product.
CoordinatorItems(price_cents) ==
    <<[quantity |-> 1, unit_price_cents |-> price_cents,
       line_total_cents |-> price_cents * 1]>>

CoordinatorTotal(price_cents) ==
    LET subtotal_cents == CoordinatorItems(price_cents)[1].line_total_cents
        tax_cents == (subtotal_cents * TaxPercent) \div 100
    IN [subtotal_cents |-> subtotal_cents, tax_cents |-> tax_cents,
        shipping_cents |-> ShippingCents,
        grand_total_cents |-> subtotal_cents + tax_cents + ShippingCents]

\* The models are handed the items and total of some caller.
ConstructCart(items, total) ==
    /\ cartv = NoCall
    /\ cartv' = [built_by |-> "caller", items |-> items, total |-> total,
                 accepted |-> CartTotalsValid(items, total)]
    /\ UNCHANGED <<now, jobs, sched, deactLog, evals, creator, canceller, lastLog,
                   scan, ledger, chain, signing, mandates, intentv, hpchain, sse>>

\* The models are handed the coordinator's items and total for a product.
ConstructCoordinatorCart(product) ==
    LET items == CoordinatorItems(product.price_cents)
        total == CoordinatorTotal(product.price_cents)
    IN
    /\ cartv = NoCall
    /\ cartv' = [built_by |-> "coordinator", items |-> items, total |-> total,
                 accepted |-> CartTotalsValid(items, total)]
    /\ UNCHANGED <<now, jobs, sched, deactLog, evals, creator, canceller, lastLog,
                   scan, ledger, chain, signing, mandates, intentv, hpchain, sse>>

NextCart ==
    /\ cartv = NoCall
    /\ \/ \E items \in ItemLists, total \in Totals : ConstructCart(items, total)
       \/ \E product \in ProductPool : ConstructCoordinatorCart(product)

SpecCart == Init /\ [][NextCart]_vars

\* -------------------------------------------------- create_intent_mandate
Scenarios == {"human_present", "human_not_present"}

\* Python's None.
NoValue == [none |-> TRUE]

\* The constraints argument: None, a dict ConstraintsObject accepts, one it
\* rejects (max_price_cents: gt 0).
IntentConstraints ==
    {NoValue,
     [max_price_cents |-> 5500, max_delivery_days |-> 7],
     [max_price_cents |-> 0, max_delivery_days |-> 7]}

\* The validator's window for the expiration, in hours from utcnow().
MinHours == 1
MaxHours == 720

\* The expiration argument: None or a datetime, in hours from utcnow().
DatetimeValue(hours) == [type |-> "datetime", value |-> hours]

Expirations ==
    {NoValue} \cup {DatetimeValue(h) : h \in {MinHours, MinHours + 1, MaxHours, MaxHours + 1}}

\* "expiration": expiration.isoformat() if expiration else None
ExpirationField(expiration) ==
    IF expiration = NoValue THEN NoValue ELSE StrValue(expiration.value)

\* sign_user_mandate(mandate_data, user_id): made with the user role's secret.
UserSignature(user_id) == [signer_identity |-> user_id, role |-> "user"]

\* The mandate_data dict handed to IntentMandate(**mandate_data).
IntentMandateData(user_id, scenario, constraints, expiration, signature_required) ==
    [mandate_id |-> IF scenario = "human_not_present"
                    THEN "intent_hnp_1" ELSE "intent_hp_1",
     user_id |-> user_id,
     scenario |-> scenario,
     constraints |-> constraints,
     expiration |-> ExpirationField(expiration),
     signature |-> IF signature_required THEN UserSignature(user_id) ELSE NoValue]

\* model_config strict: a datetime field takes None or a datetime, a str is
\* not parsed.
StrictDatetime(v) == v = NoValue \/ v.type = "datetime"

\* ConstraintsObject: max_price_cents gt 0, max_delivery_days gt 0 and le 30.
ConstraintsValid(c) ==
    /\ c.max_price_cents > 0
    /\ c.max_delivery_days > 0
    /\ c.max_delivery_days <= 30

HnpRequirementsMut(d) == TRUE

\* validate_hnp_requirements
HnpRequirements(d) ==
    d.scenario = "human_not_present" =>
        /\ d.constraints # NoValue
        /\ d.expiration # NoValue
        /\ d.signature # NoValue
        /\ d.signature.signer_identity = d.user_id
        /\ d.expiration.value > MinHours
        /\ d.expiration.value <= MaxHours

\* IntentMandate(**mandate_data) returns (TRUE) or raises (FALSE).
IntentMandateAccepts(d) ==
    /\ StrictDatetime(d.expiration)
    /\ d.constraints # NoValue => ConstraintsValid(d.constraints)
    /\ HnpRequirements(d)

\* The MandateModel row of an Intent.
IntentRow(d) ==
    [mandate_type |-> "intent",
     user_id |-> d.user_id,
     mandate_data |-> d,
     signature |-> d.signature,
     validation_status |-> IF d.signature = NoValue THEN "unsigned" ELSE "valid"]

\* The mandates table: signature is a NOT NULL column, the commit of a row
\* without one raises.
RowInsertable(row) == row.signature # NoValue

CreateIntentMandate(user_id, scenario, constraints, expiration, signature_required) ==
    LET d == IntentMandateData(user_id, scenario, constraints, expiration,
                               signature_required)
        stored == IntentMandateAccepts(d) /\ RowInsertable(IntentRow(d))
    IN
    /\ intentv' = [user_id |-> user_id, scenario |-> scenario,
                   constraints |-> constraints, expiration |-> expiration,
                   signature_required |-> signature_required,
                   raises |-> ~stored]
    /\ mandates' = IF stored
                   THEN [mandates EXCEPT ![d.mandate_id] = IntentRow(d)]
                   ELSE mandates
    /\ UNCHANGED <<now, jobs, sched, deactLog, evals, creator, canceller, lastLog,
                   scan, ledger, chain, signing, cartv, hpchain, sse>>

NextIntent ==
    /\ intentv = NoCall
    /\ \E user_id \in Users, scenario \in Scenarios, constraints \in IntentConstraints,
          expiration \in Expirations, signature_required \in BOOLEAN :
          CreateIntentMandate(user_id, scenario, constraints, expiration,
                              signature_required)

SpecIntent == Init /\ [][NextIntent]_vars

\* -------------------------------------------------- the mandates table
\* datetime.utcnow(), in microseconds.
UtcNow == Second * (now + 1)

\* The placeholder save_cart_mandate writes into the NOT NULL columns.
Pending == [pending |-> TRUE]

MandateRow(mandate_type, user_id, d, signature, signer_identity, validation_status) ==
    [mandate_type |-> mandate_type,
     user_id |-> user_id,
     mandate_data |-> d,
     signature |-> signature,
     signer_identity |-> signer_identity,
     validation_status |-> validation_status]

\* save_cart_mandate: the unsigned Cart of the immediate purchase.
SaveCartMandate(d) ==
    /\ mandates["cart_hp_1"] = NoRow
    /\ mandates' = [mandates EXCEPT !["cart_hp_1"] =
                        MandateRow("cart", "u1", d, Pending, "pending", "unsigned")]
    /\ UNCHANGED <<now, jobs, sched, deactLog, evals, creator, canceller, lastLog,
                   scan, ledger, chain, signing, cartv, intentv, hpchain, sse>>

\* invoke_payment_processing: the Payment mandate of the payment agent's
\* reply, stored with its signature.
SavePaymentMandate(d) ==
    LET signature == SignMandate(d, "payment_agent", DefaultSecret["payment_agent"], UtcNow)
    IN
    /\ mandates["payment_hp_1"] = NoRow
    /\ mandates' = [mandates EXCEPT !["payment_hp_1"] =
                        MandateRow("payment", "u1", d, signature.signature_value,
                                   "payment_agent", "valid")]
    /\ UNCHANGED <<now, jobs, sched, deactLog, evals, creator, canceller, lastLog,
                   scan, ledger, chain, signing, cartv, intentv, hpchain, sse>>

SignerTypes == {"user", "agent"}

\* db_mandate.mandate_data = json.dumps(signed_mandate) and the signature
\* columns, whatever the row held.
RowAfterSign(row, d, signature) ==
    [row EXCEPT !.mandate_data = d,
                !.signature = signature.signature_value,
                !.signer_identity = signature.signer_identity,
                !.validation_status = "valid"]

\* POST /sign with mandate_id m, the request's mandate_data d, signer_id and
\* signer_type.
SignMandateEndpoint(m, d, signer_id, signer_type) ==
    LET signature == SignMandate(d, signer_id, DefaultSecret[signer_type], UtcNow)
    IN
    /\ mandates[m] # NoRow
    /\ mandates' = [mandates EXCEPT ![m] = RowAfterSign(mandates[m], d, signature)]
    /\ UNCHANGED <<now, jobs, sched, deactLog, evals, creator, canceller, lastLog,
                   scan, ledger, chain, signing, cartv, intentv, hpchain, sse>>

NextMandates ==
    \/ Advance
    \/ \E d \in SignedDicts : SaveCartMandate(d)
    \/ \E d \in SignedDicts : SavePaymentMandate(d)
    \/ \E m \in MandateIds, d \in SignedDicts, signer_id \in SignerIdentities,
          signer_type \in SignerTypes : SignMandateEndpoint(m, d, signer_id, signer_type)

SpecMandates == Init /\ [][NextMandates]_vars

\* ------------------------------------------------------ validate_hp_chain
\* What one call is given: whether the JSON text parses into a CartMandate,
\* whether its totals are consistent (the model validators), the secrets in
\* the environment, the role whose secret signed the Cart, and whether the
\* signer identity is the Cart's owner.
HpChainInputs ==
    [parses : BOOLEAN, totals_consistent : BOOLEAN, env : Environments,
     cart_origin : Roles, signer_is_owner : BOOLEAN]

SignatureOfHpCart(in) ==
    SignMandate(MandateDict(5320), IF in.signer_is_owner THEN "u1" ELSE "u2",
                SettingsSecret(in.env, in.cart_origin), Second)

\* validate_hp_chain
ValidateHpChain(in) ==
    LET sig == SignatureOfHpCart(in)
        parsed == Then([errors |-> <<>>, raised |-> FALSE],
                       ~in.parses \/ ~in.totals_consistent, <<>>)
        check1 == Then(parsed, FALSE,
                       Entry(~PaymentVerifySignature(MandateDict(5320), sig.signature_value,
                                                     sig.signer_identity,
                                                     IsoFormat(sig.timestamp),
                                                     in.env, "user"),
                             "cart_signature"))
        check2 == Then(check1, "user_id" \notin PaymentCartFields,
                       Entry(~in.signer_is_owner, "cart_signer"))
        done == Then(check2, "total_cents" \notin TotalFields
                             \/ "user_id" \notin PaymentCartFields, <<>>)
    IN [valid |-> ~done.raised /\ done.errors = <<>>, errors |-> done.errors]

ValidateHp(in) ==
    /\ hpchain = NoCall
    /\ hpchain' = [input |-> in,
                   cart_signature |-> SignatureOfHpCart(in),
                   result |-> ValidateHpChain(in)]
    /\ UNCHANGED <<now, jobs, sched, deactLog, evals, creator, canceller, lastLog,
                   scan, ledger, chain, signing, cartv, mandates, intentv, sse>>

NextHpChain ==
    /\ hpchain = NoCall
    /\ \E in \in HpChainInputs : ValidateHp(in)

SpecHpChain == Init /\ [][NextHpChain]_vars

\* ------------------------------------------------------------ SSEManager
\* asyncio.Lock.acquire returns at once when the lock is unlocked and no
\* coroutine waits for it; otherwise the coroutine is queued, first come
\* first served.
LockAvailable == sse.lock = "free" /\ sse.waiters = <<>>

\* self._queues[session_id] = asyncio.Queue()
QueuesAfterCreate(s) ==
    IF sse.queues[s].exists THEN sse.queues
    ELSE [sse.queues EXCEPT ![s] = [exists |-> TRUE, items |-> <<>>]]

\* await self._queues[session_id].put(event): the queue is unbounded, the
\* put never waits.
QueuesAfterPut(queues, s, event) ==
    [queues EXCEPT ![s].items = Append(@, event)]

\* add_event from "async with self._lock" on, the lock being the caller's
\* to take.  With a queue for the session: last_activity, the lock released,
\* the event put, return.  With none: create_session is awaited with the
\* lock held, and create_session begins with "async with self._lock".
AddEventLocked(c, s, event) ==
    IF sse.queues[s].exists
    THEN sse' = [sse EXCEPT !.queues = QueuesAfterPut(sse.queues, s, event),
                            !.added = event,
                            !.callers[c] = IdleCaller]
    ELSE sse' = [sse EXCEPT !.lock = c,
                            !.added = event,
                            !.callers[c] = [pc |-> "create_wait", op |-> "add_event",
                                            session |-> s, event |-> event]]

\* create_session inside the lock, and what its caller does next: the
\* stream takes the queue, add_event goes on to its own put.
CreateSessionLocked(c, s, op, event) ==
    LET created == QueuesAfterCreate(s) IN
    CASE op = "stream" ->
           sse' = [sse EXCEPT !.queues = created,
                              !.callers[c] = [pc |-> "stream", op |-> "stream",
                                              session |-> s, event |-> 0]]
      [] op = "add_event" ->
           sse' = [sse EXCEPT !.queues = QueuesAfterPut(created, s, event),
                              !.lock = "free",
                              !.callers[c] = IdleCaller]
      [] OTHER ->
           sse' = [sse EXCEPT !.queues = created, !.callers[c] = IdleCaller]

UnchangedButSse ==
    UNCHANGED <<now, jobs, sched, deactLog, evals, creator, canceller, lastLog,
                scan, ledger, chain, signing, cartv, mandates, intentv, hpchain>>

\* await sse_manager.add_event(session_id, ...)
AddEvent(c, s) ==
    /\ sse.callers[c].pc = "idle"
    /\ sse.added < MaxEvents
    /\ IF LockAvailable
       THEN AddEventLocked(c, s, sse.added + 1)
       ELSE sse' = [sse EXCEPT !.waiters = Append(@, c),
                               !.added = @ + 1,
                               !.callers[c] = [pc |-> "lock_wait", op |-> "add_event",
                                               session |-> s, event |-> sse.added + 1]]
    /\ UnchangedButSse

\* await sse_manager.create_session(session_id)
CreateSession(c, s) ==
    /\ sse.callers[c].pc = "idle"
    /\ IF LockAvailable
       THEN CreateSessionLocked(c, s, "create_session", 0)
       ELSE sse' = [sse EXCEPT !.waiters = Append(@, c),
                               !.callers[c] = [pc |-> "lock_wait", op |-> "create_session",
                                               session |-> s, event |-> 0]]
    /\ UnchangedButSse

\* sse_manager.get_events_stream(session_id), up to queue = self._queues[...]
GetEventsStream(c, s) ==
    /\ sse.callers[c].pc = "idle"
    /\ IF sse.queues[s].exists
       THEN sse' = [sse EXCEPT !.callers[c] = [pc |-> "stream", op |-> "stream",
                                               session |-> s, event |-> 0]]
       ELSE IF LockAvailable
       THEN CreateSessionLocked(c, s, "stream", 0)
       ELSE sse' = [sse EXCEPT !.waiters = Append(@, c),
                               !.callers[c] = [pc |-> "lock_wait", op |-> "stream",
                                               session |-> s, event |-> 0]]
    /\ UnchangedButSse

\* The lock is handed to the coroutine that waits for it: the first of the
\* queue, or the one that waits inside create_session called by add_event.
Acquire(c) ==
    LET f == sse.callers[c]
        woken == [sse EXCEPT !.waiters = Tail(@)]
    IN
    /\ sse.lock = "free"
    /\ f.pc \in {"lock_wait", "create_wait"}
    /\ f.pc = "lock_wait" => (sse.waiters # <<>> /\ Head(sse.waiters) = c)
    /\ IF f.pc = "create_wait"
       THEN CreateSessionLocked(c, f.session, f.op, f.event)
       ELSE IF f.op = "add_event"
       THEN IF sse.queues[f.session].exists
            THEN sse' = [woken EXCEPT !.queues = QueuesAfterPut(sse.queues, f.session, f.event),
                                      !.callers[c] = IdleCaller]
            ELSE sse' = [woken EXCEPT !.lock = c,
                                      !.callers[c] = [f EXCEPT !.pc = "create_wait"]]
       ELSE IF f.op = "stream"
       THEN sse' = [woken EXCEPT !.queues = QueuesAfterCreate(f.session),
                                 !.callers[c] = [f EXCEPT !.pc = "stream"]]
       ELSE sse' = [woken EXCEPT !.queues = QueuesAfterCreate(f.session),
                                 !.callers[c] = IdleCaller]
    /\ UnchangedButSse

\* event = await queue.get(); yield event
StreamGet(c) ==
    LET f == sse.callers[c]
        items == sse.queues[f.session].items
    IN
    /\ f.pc = "stream"
    /\ items # <<>>
    /\ sse' = [sse EXCEPT !.queues[f.session].items = Tail(items),
                          !.delivered[f.session] = Append(@, Head(items))]
    /\ UnchangedButSse

\* The task of the coroutine is cancelled (a timeout of the request, the
\* client gone): CancelledError leaves the "async with" blocks, which
\* releases the lock the coroutine holds and takes it off the waiters.
CancelCaller(c) ==
    LET f == sse.callers[c] IN
    /\ f.pc # "idle"
    /\ sse' = [sse EXCEPT !.lock = IF @ = c THEN "free" ELSE @,
                          !.waiters = SelectSeq(@, LAMBDA w : w # c),
                          !.cancelled = IF f.op = "add_event" THEN @ \cup {f.event} ELSE @,
                          !.callers[c] = IdleCaller]
    /\ UnchangedButSse

NextSse ==
    \/ \E c \in Callers, s \in Sessions : AddEvent(c, s)
    \/ \E c \in Callers, s \in Sessions : CreateSession(c, s)
    \/ \E c \in Callers, s \in Sessions : GetEventsStream(c, s)
    \/ \E c \in Callers : Acquire(c)
    \/ \E c \in Callers : StreamGet(c)
    \/ \E c \in Callers : CancelCaller(c)

SpecSse == Init /\ [][NextSse]_vars

\* The event loop runs every coroutine that can run; a task is cancelled
\* only when its owner chooses to.
FairnessSse ==
    /\ \A c \in Callers : WF_vars(Acquire(c))
    /\ \A c \in Callers : WF_vars(StreamGet(c))

SpecSseLive == Init /\ [][NextSse]_vars /\ FairnessSse

\* ------------------------------------------------------------ properties
Reasons(j) == {deactLog[j][k] : k \in 1..Len(deactLog[j])}

PurchaseStarts(j) ==
    Cardinality({k \in 1..Len(deactLog[j]) : deactLog[j][k] = "purchase_starting"})

\* A coroutine with frame r takes the step (or is lost in a restart).
Stepped(r) == CopiesIn(r, evals') < CopiesIn(r, evals)

\* The coroutine with frame r is over after the step.
Ended(r) == evals' = Returned(r) \/ evals' = EmptyBag

\* C1: of the concurrent evaluations of one job that each found a matching
\* candidate only one gets past the guard and starts the purchase; the
\* others see the flipped flag and return.  So the guard is flipped for a
\* purchase at most once per job.
C1_OnePurchasePerJob == \A j \in Intents : PurchaseStarts(j) <= 1

\* C3: an evaluation that is at the guard while its job is stored inactive
\* ends there: its next step returns, and the job table, the scheduler's
\* store and the deactivation log are as before.
C3_GuardNoopStep ==
    \A r \in Running :
        (r.pc = "guard" /\ ~jobs[r.job].active /\ Stepped(r))
        => /\ Ended(r)
           /\ jobs' = jobs
           /\ sched' = sched
           /\ deactLog' = deactLog

C3_GuardNoop == [][C3_GuardNoopStep]_vars

C3_Witness ==
    /\ lastLog.event = "guard_noop"
    /\ ~jobs[lastLog.job].active
    /\ evals = EmptyBag

\* C4: whenever an evaluation is inside trigger_autonomous_purchase, the
\* only place that calls the payment collaborator, its job is stored
\* inactive and has left the scheduler: the flip was committed first.
C4_FlipBeforePurchase ==
    \A r \in Running :
        r.pc = "purchase"
        => /\ ~jobs[r.job].active
           /\ r.job \notin sched
           /\ "purchase_starting" \in Reasons(r.job)

C4_Witness ==
    \E r \in Running :
        /\ r.pc = "purchase"
        /\ deactLog[r.job] = <<"purchase_starting">>

\* C5: the step in which an evaluation that has not committed the flip
\* fails leaves the job table and the scheduler's store as they were: a job
\* that was active is active and scheduled when the evaluation has ended.
C5_FailureStep ==
    \A r \in Running :
        (/\ r.pc \in PreFlip
         /\ evals' = Returned(r)
         /\ lastLog' = LogLine("check_failed", r.job))
        => /\ jobs' = jobs
           /\ sched' = sched

C6_Step ==
    \A j \in Intents :
        jobs[j] # NoJob
        => /\ jobs'[j] # NoJob
           /\ ~jobs[j].active => ~jobs'[j].active

C6_InactiveForever == [][C6_Step]_vars

C6_Witness ==
    /\ lastLog.event = "create_integrity_error"
    /\ jobs[lastLog.job] # NoJob
    /\ ~jobs[lastLog.job].active
    /\ now > 0

\* C7: once a user cancel of a job has completed the job is inactive, and
\* an evaluation of that job that begins afterwards returns at its first
\* step: it never reaches the catalog query or the purchase, and the job
\* table, the scheduler's store and the deactivation log stay as they were.
C7_Step ==
    \A j \in Intents :
        "user_cancelled" \in Reasons(j)
        => /\ ~jobs[j].active
           /\ \A r \in Running :
                (r.pc = "start" /\ r.job = j /\ Stepped(r))
                => /\ Ended(r)
                   /\ jobs' = jobs
                   /\ sched' = sched
                   /\ deactLog' = deactLog

C7_CancelledNoop == [][C7_Step]_vars

C7_Witness ==
    /\ lastLog.event = "check_inactive"
    /\ "user_cancelled" \in Reasons(lastLog.job)
    /\ ~jobs[lastLog.job].active

\* C8: a tick that makes the expiry test with now > T goes to the expiry
\* branch without a catalog query, and that branch stores the job inactive
\* with the reason "expired" and takes it out of the scheduler; a tick
\* that makes the test with now <= T does not take the expiry branch.
C8_Step ==
    \A r \in Running :
        LET j == r.job
            T == IntentData[j].expiration
            expiring == Moved(r, [r EXCEPT !.pc = "expire"])
        IN  /\ (r.pc = "load" /\ Stepped(r))
               => /\ now > T => \/ evals' = expiring
                                \/ /\ Ended(r)
                                   /\ lastLog'.event \in {"check_failed", "restart"}
                  /\ now <= T => evals' # expiring
            /\ (r.pc = "expire" /\ Stepped(r))
               => /\ Ended(r)
                  /\ lastLog'.event = "expired"
                     => /\ ~jobs'[j].active
                        /\ j \notin sched'
                        /\ deactLog'[j] = Append(deactLog[j], "expired")

C8_ExpiryAtFirstLateTick == [][C8_Step]_vars

C8_Witness ==
    /\ lastLog.event = "expired"
    /\ ~jobs[lastLog.job].active
    /\ deactLog[lastLog.job] = <<"expired">>
    /\ now > IntentData[lastLog.job].expiration

\* The reason a deactivation is logged with, as a terminal reason.
TerminalReason(reason) ==
    CASE reason = "user_cancelled" -> "cancelled"
      [] reason = "purchase_complete" -> "completed"
      [] OTHER -> reason

\* C9: every inactive job has been deactivated exactly once, with a reason
\* that is one of completed, expired, cancelled, failed.
C9_OneTerminalReason ==
    \A j \in Intents :
        (jobs[j] # NoJob /\ ~jobs[j].active)
        => /\ Len(deactLog[j]) = 1
           /\ TerminalReason(deactLog[j][1]) \in {"completed", "expired", "cancelled", "failed"}

\* The three tests of the claim on one candidate, in exact arithmetic:
\* price * 1.08 + 1000 <= max_price, in hundredths of a cent.
Qualifies(p, max_price_cents, max_delivery_days) ==
    /\ p.price_cents * (100 + TaxPercent) + ShippingCents * 100 <= max_price_cents * 100
    /\ p.delivery_estimate_days <= max_delivery_days
    /\ p.stock_status = "in_stock"

QualifyingIndexes ==
    {k \in 1..Len(scan.products) :
        Qualifies(scan.products[k], scan.max_price_cents, scan.max_delivery_days)}

C11_SelectedPurchaseRecorded ==
    [][\A r \in Running :
         (/\ r.job = "i1"
          /\ r.pc = "purchase"
          /\ r.product.price_cents = 4000
          /\ r.product.delivery_estimate_days = 5
          /\ Stepped(r)
          /\ lastLog'.event # "restart")
         => /\ ~MeetsConstraints([price_cents |-> 4350, delivery_estimate_days |-> 5,
                                  stock_status |-> "in_stock"], 5500, 7)
            /\ EstimatedCartTotal(4350) = 5698
            /\ CartGrandTotal(4000) = 5320
            /\ Len(transactions') = Len(transactions) + 1
            /\ transactions'[Len(transactions')].amount_cents = 5320]_vars

\* The mandate and the signer identity arrive at the verifier as they were
\* signed.
Untampered ==
    /\ SameDict(signing.data, signing.presented_data)
    /\ signing.presented.signer_identity = signing.signature.signer_identity

SigningSecret == SettingsSecret(signing.env, signing.signed_as)

VerifyingSecret == SettingsSecret(signing.env, signing.verified_as)

\* C16: verifying the Signature that sign returned, against the same record
\* (its keys in any order) and with the same secret, returns true.
C16_RoundTrip ==
    (/\ signing # NoCall
     /\ signing.presented = signing.signature
     /\ SameDict(signing.data, signing.presented_data)
     /\ VerifyingSecret = SigningSecret)
    => signing.result = "true"

\* The record was signed with one key order and verified with the other.
C16_Witness ==
    /\ signing # NoCall
    /\ signing.presented = signing.signature
    /\ SameDict(signing.data, signing.presented_data)
    /\ signing.data # signing.presented_data
    /\ signing.signed_as = signing.verified_as
    /\ signing.result = "true"

\* C17: verify returns false when a field of the signed record was altered,
\* when the Signature's signer identity was changed after signing, or when
\* the verifier's secret is not the one that signed; so does the payment
\* agent's verifier.
C17_TamperDetected ==
    signing # NoCall
    => /\ (/\ signing.presented.kind = "SignatureObject"
            /\ (~Untampered \/ VerifyingSecret # SigningSecret))
           => signing.result = "false"
       /\ (~Untampered \/ signing.env[signing.verified_as] # SigningSecret)
           => ~signing.payment_result

\* Only the signer identity was changed, and both verifiers refuse.
C17_Witness ==
    /\ signing # NoCall
    /\ signing.presented.kind = "SignatureObject"
    /\ signing.presented_data = signing.data
    /\ signing.presented.signer_identity # signing.signature.signer_identity
    /\ VerifyingSecret = SigningSecret
    /\ signing.env[signing.verified_as] = SigningSecret
    /\ signing.result = "false"
    /\ ~signing.payment_result

\* C18: in every configuration the process runs with, the secrets of the
\* three roles are pairwise distinct, so a signature made as one role never
\* verifies under another role's verifier.
C18_RoleSeparation ==
    signing # NoCall
    => /\ \A r1 \in Roles, r2 \in Roles :
            r1 # r2 => SettingsSecret(signing.env, r1) # SettingsSecret(signing.env, r2)
       /\ signing.signed_as # signing.verified_as
           => (signing.result # "true" /\ ~signing.payment_result)

\* C19: verify returns false and never raises on a malformed signature: one
\* that is not a well-typed Signature value, or one whose timestamp is later
\* than the time of the verification.
C19_VerifyNeverRaises ==
    signing # NoCall
    => /\ signing.result # "raises"
       /\ signing.presented.kind # "SignatureObject" => signing.result = "false"
       /\ signing.presented.timestamp > signing.utcnow
           => (signing.result = "false" /\ ~signing.payment_result)

Listed(name) == \E k \in 1..Len(chain.result.errors) : chain.result.errors[k] = name

\* The checks of the list that fail for an input.
FailingChecks(in) ==
    {c \in {"intent_unsigned", "intent_signature", "intent_signer", "intent_expired",
            "cart_signature", "cart_reference", "user_mismatch", "max_price",
            "max_delivery"} :
        \/ c = "intent_unsigned" /\ ~in.intent_signed
        \/ c = "intent_signature" /\ in.intent_signed /\ ~in.intent_signature_valid
        \/ c = "intent_signer" /\ in.intent_signed /\ ~in.intent_signer_is_user
        \/ c = "intent_expired" /\ in.expired
        \/ c = "cart_signature"
           /\ chain.cart_signature.signature_value.key # in.env["agent"]
        \/ c = "cart_reference" /\ ~in.cart_refers_to_intent
        \/ c = "user_mismatch" /\ ~in.same_user
        \/ c = "max_price" /\ ~in.price_within
        \/ c = "max_delivery" /\ ~in.delivery_within}

\* C12: validate_hnp_chain evaluates every check on every call: whatever
\* combination of checks fails on a parsed Intent and Cart, the returned list
\* has an entry for each failing check, none skipped because of an earlier one.
C12_AllChecksReported ==
    (chain # NoCall /\ chain.input.parses)
    => \A c \in FailingChecks(chain.input) : Listed(c)

\* C13: a Cart whose signature was made with a secret other than the agent
\* role's is reported as a violation by validate_hnp_chain, whatever the other
\* checks find, and the Cart the coordinator builds is signed with the agent
\* role's secret.
C13_DeferredCartAgentSigned ==
    chain # NoCall
    => /\ chain.cart_signature.signature_value.key # chain.input.env["agent"]
          => /\ ~chain.result.valid
             /\ chain.input.parses => Listed("cart_signature")
       /\ chain.input.cart_origin = "coordinator"
          => chain.cart_signature.signature_value.key
                = SettingsSecret(chain.input.env, "agent")

\* A Cart signed with the user role's secret, every other fact in order, is
\* reported for its signature.
C13_Witness ==
    /\ chain # NoCall
    /\ chain.input.cart_origin = "user"
    /\ chain.input.env["agent"] # Unset
    /\ chain.input.parses /\ chain.input.intent_signed
    /\ chain.input.intent_signature_valid /\ chain.input.intent_signer_is_user
    /\ ~chain.input.expired /\ chain.input.cart_refers_to_intent
    /\ chain.input.same_user /\ chain.input.price_within
    /\ chain.input.delivery_within
    /\ Listed("cart_signature")
    /\ ~chain.result.valid

\* C14: the amount of every stored Payment equals the grand total of the
\* Cart it belongs to.
C14_PaymentAmountIsCartTotal ==
    \A k \in 1..Len(payments) :
        payments[k].amount_cents = carts[payments[k].cart].grand_total_cents

\* C15: every evaluation that got past the guard and ran the purchase ends
\* with exactly one new Transaction, which records authorized or declined,
\* names the attempt's Intent and Cart and carries the Cart's grand total.
C15_OneTransactionPerAttempt ==
    [][\A r \in Running :
         (r.pc = "purchase" /\ Stepped(r) /\ lastLog'.event # "restart")
         => /\ Len(transactions') = Len(transactions) + 1
            /\ LET t == transactions'[Len(transactions')] IN
               /\ t.intent = r.job
               /\ t.cart = Len(carts')
               /\ t.status \in {"authorized", "declined"}
               /\ t.amount_cents = CartGrandTotal(r.product.price_cents)]_vars

\* C20: a Cart that is constructed has each line total equal to quantity
\* times unit price, its subtotal equal to the sum of the line totals and its
\* grand total equal to subtotal plus tax plus shipping; a Cart violating one
\* of the three is rejected; and the single-line Cart of the coordinator
\* satisfies the three, so is not rejected for them, whatever the price.
C20_CartArithmetic ==
    cartv # NoCall
    => LET lines == \A k \in 1..Len(cartv.items) :
                       cartv.items[k].line_total_cents
                         = cartv.items[k].quantity * cartv.items[k].unit_price_cents
           subtotal == cartv.total.subtotal_cents = SumLineTotals(cartv.items)
           grand == cartv.total.grand_total_cents
                      = cartv.total.subtotal_cents + cartv.total.tax_cents
                        + cartv.total.shipping_cents
       IN /\ cartv.accepted => (lines /\ subtotal /\ grand)
          /\ cartv.built_by = "coordinator"
             => (Len(cartv.items) = 1 /\ lines /\ subtotal /\ grand /\ cartv.accepted)

\* A Cart of two lines with tax and shipping is accepted.
C20_Witness ==
    /\ cartv # NoCall
    /\ cartv.accepted
    /\ Len(cartv.items) = 2
    /\ cartv.total.tax_cents > 0
    /\ cartv.total.shipping_cents > 0
C22_Step ==
    \A m \in MandateIds :
        (mandates[m] # NoRow /\ mandates[m].validation_status = "valid")
        => /\ mandates'[m] # NoRow
           /\ mandates'[m].mandate_data = mandates[m].mandate_data
           /\ mandates'[m].signature = mandates[m].signature

C22_SignedMandateImmutable == [][C22_Step]_vars

\* C23: transactions are append-only: a Transaction that is persisted is
\* there, with the same status, amount and Intent and Cart ids, after every
\* step.
C23_Step ==
    \A k \in 1..Len(transactions) :
        /\ k <= Len(transactions')
        /\ transactions'[k] = transactions[k]

C23_TransactionsAppendOnly == [][C23_Step]_vars

\* A Transaction was persisted and a later purchase with another outcome
\* has been recorded after it.
C23_Witness ==
    /\ Len(transactions) = 2
    /\ transactions[1] # transactions[2]

\* C24: after a restart every job that is stored as active is in the
\* scheduler's job store again, and no job stored as inactive is.
C24_RestartKeepsActiveJobs ==
    lastLog.event = "restart" =>
        \A j \in Intents :
            jobs[j] # NoJob => (jobs[j].active <=> j \in sched)

\* C25: once an evaluation of an active, unexpired job has found a matching
\* candidate and has taken the guard, the purchase is eventually executed:
\* the job is inactive and a Transaction exists for its Intent.
C25_MatchLeadsToTransaction ==
    \A j \in Intents :
        (\E r \in Running : r.job = j /\ r.pc = "purchase")
        ~> (/\ jobs[j] # NoJob
            /\ ~jobs[j].active
            /\ \E k \in 1..Len(transactions) : transactions[k].intent = j)

\* C26: the Cart is built, signed and re-validated before the guard is
\* flipped: when trigger_autonomous_purchase fails in building, signing or
\* re-checking the Cart, the job is still active and no "purchase_starting"
\* deactivation has been made.
C26_CartBeforeGuard ==
    \A j \in Intents :
        lastLog = LogLine("purchase_failed", j)
        => /\ jobs[j].active
           /\ "purchase_starting" \notin Reasons(j)

\* C27: validate_hnp_chain returns valid = true exactly when every check
\* holds: a chain that is reported valid passes every check, and a parsed
\* chain that passes every check is reported valid with an empty list.
C27_ValidIffAllChecksHold ==
    chain # NoCall
    => /\ chain.result.valid
          <=> (chain.input.parses /\ FailingChecks(chain.input) = {})
       /\ chain.result.valid => chain.result.errors = <<>>

HpListed(name) ==
    \E k \in 1..Len(hpchain.result.errors) : hpchain.result.errors[k] = name

\* The Cart's signature verifies under the user role's secret.
HpSignatureVerifies ==
    hpchain.cart_signature.signature_value.key = hpchain.input.env["user"]

\* C28: validate_hp_chain returns valid = true exactly when the Cart's
\* signature verifies under the user role's secret, the signer is the Cart's
\* owner and the totals are consistent; otherwise the result is invalid and
\* lists the signature and the signer when they fail.
C28_HpValidIffChecksHold ==
    hpchain # NoCall
    => /\ hpchain.result.valid
          <=> (/\ hpchain.input.parses
               /\ hpchain.input.totals_consistent
               /\ HpSignatureVerifies
               /\ hpchain.input.signer_is_owner)
       /\ (hpchain.input.parses /\ hpchain.input.totals_consistent)
          => /\ ~HpSignatureVerifies => HpListed("cart_signature")
             /\ ~hpchain.input.signer_is_owner => HpListed("cart_signer")

\* C29: the tick of an active job commits last_check_at before it loads the
\* Intent, tests the expiry or queries the catalog, and the value stays
\* recorded whatever the tick does afterwards.
C29_Step ==
    \A r \in Running :
        /\ (r.pc = "touch" /\ Stepped(r) /\ ~Ended(r))
           => jobs'[r.job].last_check_at = r.check_time
        /\ r.pc \notin {"start", "touch"}
           => /\ jobs[r.job].last_check_at >= 0
              /\ jobs'[r.job].last_check_at >= 0

C29_LastCheckFirst == [][C29_Step]_vars

\* A tick that found the Intent expired ends, with its check recorded.
C29_Witness ==
    \E j \in Intents :
        /\ lastLog = LogLine("expired", j)
        /\ jobs[j].last_check_at >= 0

\* C30: an evaluation that finds no candidate, or none that satisfies all
\* constraints, is a no-op: the job record, the scheduler, the
\* deactivations and the Carts, Payments and Transactions are as before,
\* and the only write of the tick to the job record is last_check_at.
C30_Step ==
    \A r \in Running :
        /\ (/\ r.pc = "load"
            /\ Stepped(r)
            /\ Ended(r)
            /\ lastLog' \in {LogLine("no_products", r.job), LogLine("no_match", r.job)})
           => /\ jobs' = jobs
              /\ sched' = sched
              /\ deactLog' = deactLog
              /\ ledger' = ledger
        /\ (r.pc = "touch" /\ Stepped(r))
           => jobs' = [jobs EXCEPT ![r.job].last_check_at = jobs'[r.job].last_check_at]

C30_NoMatchIsNoop == [][C30_Step]_vars

\* A tick of an active job found no match: the job is still active and
\* scheduled, its check is recorded, no Cart exists.
C30_Witness ==
    \E j \in Intents :
        /\ lastLog = LogLine("no_match", j)
        /\ jobs[j].active
        /\ j \in sched
        /\ jobs[j].last_check_at >= 0
        /\ carts = <<>>

\* C31: a monitoring job is created only for a signed Intent. The creation
\* for an unsigned Intent ends with signature_invalid and adds no job record
\* and no scheduler entry; a job record appears in the active state under
\* the id of its Intent, so that no two records belong to one Intent.
C31_Step ==
    /\ \A i \in Intents :
          /\ (jobs[i] = NoJob /\ jobs'[i] # NoJob)
             => /\ IntentData[i].signed
                /\ jobs'[i].active
                /\ jobs'[i].intent_mandate_id = i
          /\ (i \in sched' /\ i \notin sched) => IntentData[i].signed
          /\ ~IntentData[i].signed => (jobs'[i] = NoJob /\ i \notin sched')
          /\ (lastLog' # lastLog /\ lastLog' = LogLine("create_signature_invalid", i))
             => (jobs' = jobs /\ sched' = sched)
    /\ \A j1, j2 \in Intents :
          (/\ jobs'[j1] # NoJob
           /\ jobs'[j2] # NoJob
           /\ jobs'[j1].intent_mandate_id = jobs'[j2].intent_mandate_id)
          => j1 = j2

C31_JobOnlyForSignedIntent == [][C31_Step]_vars

\* The creation for the unsigned Intent i3 was refused while the job of the
\* signed Intent i1 exists and is scheduled.
C31_Witness ==
    /\ lastLog = LogLine("create_signature_invalid", "i3")
    /\ jobs["i3"] = NoJob
    /\ "i3" \notin sched
    /\ jobs["i1"] # NoJob
    /\ "i1" \in sched

\* C32: cancel_monitoring_job(job_id, user_id) goes on to deactivate the job
\* and return True only when its query finds the job stored, active and
\* owned by user_id; the True return leaves the job inactive and without a
\* scheduler entry, and a False return leaves the job records, the
\* scheduler and the deactivations as they were.
C32_Step ==
    /\ (canceller.pc = "idle" /\ canceller'.pc = "deactivate")
       => /\ jobs[canceller'.job] # NoJob
          /\ jobs[canceller'.job].active
          /\ jobs[canceller'.job].user_id = canceller'.user_id
          /\ jobs' = jobs
          /\ sched' = sched
    /\ (canceller.pc = "deactivate" /\ lastLog'.event = "cancel_true")
       => /\ lastLog'.job = canceller.job
          /\ ~jobs'[canceller.job].active
          /\ canceller.job \notin sched'
    /\ (lastLog' # lastLog /\ lastLog'.event = "cancel_false")
       => /\ jobs' = jobs
          /\ sched' = sched
          /\ deactLog' = deactLog

C32_CancelOnlyOwnActiveJob == [][C32_Step]_vars

\* A cancel by another user was refused: the job is still active and
\* scheduled.
C32_Witness ==
    \E j \in Intents :
        /\ lastLog = LogLine("cancel_false", j)
        /\ jobs[j] # NoJob
        /\ jobs[j].active
        /\ j \in sched

\* C33: after its creation a job record changes in its active flag and its
\* last_check_at only: the record stays, and its job id, owning user,
\* product query, constraints snapshot, check interval and expiration are
\* the same after every step.
C33_Step ==
    \A j \in Intents :
        jobs[j] # NoJob
        => /\ jobs'[j] # NoJob
           /\ jobs'[j] = [jobs[j] EXCEPT !.active = jobs'[j].active,
                                         !.last_check_at = jobs'[j].last_check_at]

C33_OnlyActiveAndLastCheckChange == [][C33_Step]_vars

\* A job that was ticked and then deactivated: both mutable fields differ
\* from the created record, the others are those of the creation.
C33_Witness ==
    \E j \in Intents :
        /\ jobs[j] # NoJob
        /\ ~jobs[j].active
        /\ jobs[j].last_check_at >= 0
        /\ jobs[j] = [NewJob(j) EXCEPT !.active = FALSE,
                                       !.last_check_at = jobs[j].last_check_at]

\* The step is one of an operation on job a: a tick or a step of one of its
\* evaluations, a step of its creation, or a step of a cancel request for it.
OnJob(a) ==
    \/ \E r \in Running \cup BagToSet(evals') :
         r.job = a /\ CopiesIn(r, evals') # CopiesIn(r, evals)
    \/ /\ creator' # creator
       /\ a = (IF creator.pc = "idle" THEN creator'.job ELSE creator.job)
    \/ /\ canceller' # canceller
       /\ a = (IF canceller.pc = "idle" THEN canceller'.job ELSE canceller.job)
    \/ lastLog' # lastLog /\ lastLog'.event = "cancel_false" /\ lastLog'.job = a

\* The Transactions of an Intent.
TransactionsOf(b) ==
    SelectSeq(transactions, LAMBDA t : t.intent = b)

\* C34: the evaluations (and the other operations) of different jobs are
\* independent: no step of an operation on job a changes the record of
\* another job b (its active flag and last_check_at included), its entry in
\* the scheduler or the Transactions of b's Intent.
C34_Step ==
    \A a \in Intents, b \in Intents :
        (a # b /\ OnJob(a))
        => /\ jobs'[b] = jobs[b]
           /\ (b \in sched') = (b \in sched)
           /\ TransactionsOf(b)' = TransactionsOf(b)

C34_JobsIndependent == [][C34_Step]_vars

\* Two jobs side by side: the first one was deactivated while an evaluation
\* of the second one is under way, and the second record is as created.
C34_Witness ==
    /\ jobs["i1"] # NoJob
    /\ ~jobs["i1"].active
    /\ jobs["i1"].last_check_at >= 0
    /\ jobs["i2"] = NewJob("i2")
    /\ "i2" \in sched
    /\ \E r \in Running : r.job = "i2" /\ r.pc = "touch"

\* The events a session's queue holds or its streams have yielded.
EventsOf(s) == sse.delivered[s] \o sse.queues[s].items

Enqueued(n) ==
    \E s \in Sessions : \E k \in 1..Len(EventsOf(s)) : EventsOf(s)[k] = n

InOrder(events) ==
    \A k \in 1..Len(events), l \in 1..Len(events) : k < l => events[k] < events[l]

\* C35: an add_event call that is not cancelled terminates with its event
\* in the session's queue, also when the session had no queue (the session
\* is then created by the call), and a session's events are yielded in the
\* order of their calls.
C35_AddEventTerminates ==
    /\ \A c \in Callers, n \in 1..MaxEvents :
         (sse.callers[c].op = "add_event" /\ sse.callers[c].event = n)
         ~> (Enqueued(n) \/ n \in sse.cancelled)
    /\ [](\A s \in Sessions : InOrder(EventsOf(s)))

\* C36: of a cancel request and an evaluation of the same job that race for
\* the flip only one deactivates the job: a job the cancel request
\* deactivated (it returned True) is not also deactivated for a purchase,
\* has no evaluation in trigger_autonomous_purchase and no Transaction.
C36_CancelExcludesPurchase ==
    \A j \in Intents :
        "user_cancelled" \in Reasons(j)
        => /\ "purchase_starting" \notin Reasons(j)
           /\ ~\E r \in Running : r.job = j /\ r.pc = "purchase"
           /\ TransactionsOf(j) = <<>>

\* C37: whenever no creation is between its commit and its scheduling (a
\* deactivation is one step), also after a restart, the scheduler's job
\* store holds a job id exactly when the job's record is active.
C37_SchedulerInStep ==
    creator.pc = "idle"
    => \A j \in Intents : j \in sched <=> (jobs[j] # NoJob /\ jobs[j].active)

\* The candidates an evaluation has selected and carries past the tests.
Selected == {r \in Running : r.pc \in {"guard", "flip", "purchase"}}

\* C38: for the price of every selected candidate the landed-cost estimate
\* of the selection equals the grand total of the Cart built from it, and
\* the candidate meets the Cart total and delivery checks that
\* trigger_autonomous_purchase makes against the Intent's constraints.
C38_EstimateIsCartTotal ==
    \A r \in Selected :
        /\ EstimatedCartTotal(r.product.price_cents) = CartGrandTotal(r.product.price_cents)
        /\ MeetsConstraints(r.product, jobs[r.job].max_price_cents,
                            jobs[r.job].max_delivery_days)
        /\ PurchaseOutcome(r.job, r.product) # "constraints_violated"

\* A candidate whose tax has a fraction (4167 * 0.08 = 333.36) has passed
\* the selection and reached trigger_autonomous_purchase.
C38_Witness ==
    \E r \in Running :
        /\ r.pc = "purchase"
        /\ (r.product.price_cents * TaxPercent) % 100 # 0
        /\ CartGrandTotal(r.product.price_cents) <= jobs[r.job].max_price_cents

====
